---------------------------- MODULE Spec2Model ----------------------------
(***************************************************************************)
(* on-deploy (src/index.ts): once a day, if production was deployed within *)
(* the last 24 hours, move every card of the QA column of a project board  *)
(* to the Done column, then archive the cards of the Done column beyond a  *)
(* configured limit.                                                       *)
(*                                                                         *)
(* The program is one Node.js process.  Code between two awaits, a timer   *)
(* callback, and the then/catch/finally chain of one settled request each  *)
(* run to completion, so each is one action here.                          *)
(***************************************************************************)
EXTENDS Integers, Sequences, FiniteSets, TLC

(***************************************************************************)
(* Bounds of the model.                                                    *)
(***************************************************************************)
\* Page size of the card listing.  src/index.ts:24 sets it to 100; the model
\* scales it down so that full pages, short pages and the throttled batch
\* (cards.length >= MAX_CARDS_PER_PAGE) all occur with a handful of cards.
MAX_CARDS_PER_PAGE == 2

\* Largest number of cards initially in the QA column.
MaxQA == 2

\* Largest number of cards initially in the Done column.
MaxDone == 2

\* Longest card list handed directly to moveCards / archiveCards.
MaxBatch == 3

(***************************************************************************)
(* Program constants.                                                      *)
(***************************************************************************)
\* 24 hours * 60 minutes * 60 seconds * 1000 milliseconds (src/index.ts:405)
DAY_MS == 86400000

(***************************************************************************)
(* JavaScript numbers.  An id, a limit or a time is an integer, a          *)
(* non-integer (v + 0.5) or NaN.                                           *)
(***************************************************************************)
Num(n) == [k |-> "int", v |-> n]

Half(n) == [k |-> "frac", v |-> n]

NaN == [k |-> "nan", v |-> 0]

\* Number.isInteger(x)
IsInteger(x) == x.k = "int"

\* x < c, x <= c, x > c for an integer c; every comparison with NaN is false
NumLt(x, c) == x.k \in {"int", "frac"} /\ x.v < c

NumLe(x, c) == \/ x.k = "int" /\ x.v <= c
               \/ x.k = "frac" /\ x.v < c

NumGt(x, c) == \/ x.k = "int" /\ x.v > c
               \/ x.k = "frac" /\ x.v >= c

\* x - y; NaN if either is NaN (only integers and NaN are subtracted)
NumMinus(x, y) == IF x.k = "int" /\ y.k = "int" THEN Num(x.v - y.v) ELSE NaN

Max(a, b) == IF a >= b THEN a ELSE b

Min(a, b) == IF a <= b THEN a ELSE b

(***************************************************************************)
(* Strings are sequences of one-character strings, so that parseInt can    *)
(* read them.                                                              *)
(***************************************************************************)
Digits == {"0", "1", "2", "3", "4", "5", "6", "7", "8", "9"}

DigitVal(c) ==
    CASE c = "0" -> 0 [] c = "1" -> 1 [] c = "2" -> 2 [] c = "3" -> 3
      [] c = "4" -> 4 [] c = "5" -> 5 [] c = "6" -> 6 [] c = "7" -> 7
      [] c = "8" -> 8 [] c = "9" -> 9

RECURSIVE SkipSpaces(_)
SkipSpaces(s) == IF s # <<>> /\ Head(s) = " " THEN SkipSpaces(Tail(s)) ELSE s

\* The value of the longest prefix of digits of s, continuing from acc;
\* <<value, number of digits read>>
RECURSIVE ReadDigits(_, _, _)
ReadDigits(s, acc, n) ==
    IF s # <<>> /\ Head(s) \in Digits
    THEN ReadDigits(Tail(s), 10 * acc + DigitVal(Head(s)), n + 1)
    ELSE <<acc, n>>

\* parseInt(s) with no radix: leading white space is skipped, then an
\* optional sign, then the longest run of decimal digits; what follows is
\* ignored; NaN when there is no digit.  (No input of the model starts with
\* 0x, the one case in which parseInt reads hexadecimal.)
ParseInt(s) ==
    LET t    == SkipSpaces(s)
        neg  == t # <<>> /\ Head(t) = "-"
        u    == IF t # <<>> /\ Head(t) \in {"-", "+"} THEN Tail(t) ELSE t
        r    == ReadDigits(u, 0, 0)
    IN  IF r[2] = 0 THEN NaN
        ELSE IF neg THEN Num(0 - r[1]) ELSE Num(r[1])


(***************************************************************************)
(* Types of the program (src/index.ts:1-9) and the undefined value.        *)
(***************************************************************************)
\* A Card as the code uses it: card.id
Card(n) == [id |-> n]

\* A Column or a project: {id, name}
Column(i, nm) == [id |-> i, name |-> nm]

\* What Array.prototype.find returns when nothing matches, and the value of
\* a variable not yet assigned
Undefined == [id |-> 0, name |-> "undefined"]

UndefinedNum == [k |-> "undefined", v |-> 0]

(***************************************************************************)
(* The environment: the health endpoint, the clock and the project board.  *)
(***************************************************************************)
\* A response of a request: the request threw (connection failure, or the
\* client rejecting), or it returned with a status
Resp(s) == [threw |-> FALSE, status |-> s]

Threw == [threw |-> TRUE, status |-> 0]

\* Statuses and failures the board answers a list request with
ReadResponses == {Resp(200), Resp(302), Resp(404), Threw}

\* Statuses and failures the board answers a move or archive request with.
\* (The client resolves with a response object or rejects; it never
\* resolves with null.)
WriteResponses == {Resp(200), Resp(304), Resp(404), Threw}

\* The statuses at and next to the borders of the classes, answered to a
\* function called on its own and to a batch of one card
Statuses == {199, 200, 299, 300, 302, 304, 399, 400, 404, 500}

AnyResponse == {Resp(st) : st \in Statuses} \union {Threw}

WriteResponsesOf(cardList) ==
    IF Len(cardList) = 1 THEN AnyResponse ELSE WriteResponses

\* Times are milliseconds since 2021-03-01T00:00:00.000Z
\* new Date(timestamp).getTime(): NaN (Invalid Date) for what is no date;
\* new Date never throws
DateParse(timestamp) ==
    CASE timestamp = "2021-03-02T00:00:00.000Z" -> Num(DAY_MS)
      [] timestamp = "2021-03-01T00:00:00.000Z" -> Num(0)
      [] OTHER -> NaN

\* What the health endpoint can answer: a failure, a status, a body that is
\* JSON or not, with or without the field latest_deploy_time
HealthBody(parses, hasField, ts) ==
    [parses |-> parses, hasField |-> hasField, latest_deploy_time |-> ts]

HealthAnswer(resp, body) == [resp |-> resp, body |-> body]

DeployedAt == HealthBody(TRUE, TRUE, "2021-03-02T00:00:00.000Z")

HealthAnswers ==
    { HealthAnswer(Resp(200), DeployedAt),
      HealthAnswer(Resp(302), DeployedAt),
      HealthAnswer(Resp(200), HealthBody(TRUE, TRUE, "soon")),
      HealthAnswer(Resp(200), HealthBody(TRUE, TRUE, "")),
      HealthAnswer(Resp(200), HealthBody(TRUE, FALSE, "")),
      HealthAnswer(Resp(200), HealthBody(FALSE, FALSE, "")),
      HealthAnswer(Resp(500), DeployedAt),
      HealthAnswer(Threw, DeployedAt) }

\* new Date().getTime() when the gate is evaluated: one hour before the
\* deploy, 2 hours after it, 24 hours less 1 ms, exactly 24 hours,
\* 24 hours and 1 ms, 30 hours after it
Clock ==
    { DAY_MS - 3600000, DAY_MS + 7200000, 2 * DAY_MS - 1, 2 * DAY_MS,
      2 * DAY_MS + 1, DAY_MS + 108000000 }

\* GET /repos/{owner}/{repo}/projects: two projects share a name
Projects == << Column(1, "Roadmap"), Column(2, "CASA"), Column(3, "CASA") >>

\* GET /projects/{project_id}/columns
ColumnsOf(projectId) ==
    IF projectId = 2
    THEN << Column(10, "To do"), Column(11, "QA"), Column(12, "Done"),
            Column(13, "Done") >>
    ELSE << >>

ColumnIds == {10, 11, 12, 13}

\* Ids of the cards initially in the QA column and in the Done column, top
\* of the column first
QAIds(n) == [i \in 1..n |-> i]

DoneIds(n) == [i \in 1..n |-> 100 + i]

\* The configured inputs (core.getInput)
ProjectNames == {"", "CASA", "Kanban"}

DoneNames == {"", "Done", "Shipped"}

QANames == {"", "QA", "Review"}

LimitInputs ==
    { << >>, <<"0">>, <<"1">>, <<"2">>, <<"3">>, <<"1", "0">>,
      <<"-", "1">>, <<"2", ".", "5">>, <<" ", "1">>, <<"a", "l", "l">> }


(***************************************************************************)
(* The state.                                                              *)
(***************************************************************************)
VARIABLES
    \* the configured inputs, read when the module loads (lines 16-20)
    cardLimitColumnDone, columnNameDone, columnNameQA, projectName,
    \* the environment: the answer of the health endpoint, the clock, the
    \* not-archived cards of each column (top first), the archived cards
    health, now, column, archived,
    \* main: where it is, how the process ended ("none" while it runs), the
    \* step that failed, and main's local variables
    pc, exitCode, error,
    deployTime, project, columnIdDone, columnIdQA, QACards, cardsMovedCount,
    doneCardLimit, doneCards, cardsArchivedCount,
    \* getColumnCards: its local variables
    cardIssues, page,
    \* moveCards / archiveCards: which of the two runs, the list the timer
    \* walks (cards / cardsToBeArchived), the target column, the delay, the
    \* three counters, whether the interval is set, the request of each card
    \* (not sent, in flight, or settled and how), and the promise
    batchOp, cards, columnId, delayBetweenRequestsMS,
    requestSentCount, cardAttemptCount, cardsDoneCount, requestInterval,
    response, promise, promiseValue,
    \* whether the handlers of some card have run while the request of a
    \* card before it in the list was still waiting for its answer
    overtaken,
    \* what the process has put out: every network request in order, the
    \* number of "already" INFO lines and of WARNING blocks of the batch, the
    \* number of calls of resolve
    requests, infoCount, warnCount, resolveCalls,
    \* whether every request answered so far got a 2xx status
    everyRequestOk,
    \* a function called on its own: its name, its arguments and how the
    \* call went (op is "none" in a run of main)
    call

configVars == <<cardLimitColumnDone, columnNameDone, columnNameQA, projectName>>

envVars == <<health, now>>

boardVars == <<column, archived>>

mainLocals ==
    <<deployTime, project, columnIdDone, columnIdQA, QACards,
      cardsMovedCount, doneCardLimit, doneCards, cardsArchivedCount>>

listVars == <<cardIssues, page>>

batchVars ==
    <<batchOp, cards, columnId, delayBetweenRequestsMS, requestSentCount,
      cardAttemptCount, cardsDoneCount, requestInterval, response, promise,
      promiseValue, infoCount, warnCount, resolveCalls, overtaken>>

vars ==
    <<configVars, envVars, boardVars, pc, exitCode, error, mainLocals,
      listVars, batchVars, requests, everyRequestOk, call>>

(***************************************************************************)
(* Results of a call: it returned a value or it threw.                     *)
(***************************************************************************)
Return(v) == [threw |-> FALSE, value |-> v]

Throw == [threw |-> TRUE, value |-> Undefined]

\* A call of one function: its name, its arguments, and whether it threw,
\* returned, or is still running
CallOf(op, a, b, outcome) ==
    [op |-> op, a |-> a, b |-> b, outcome |-> outcome,
     \* for getProject and getColumn: the name asked for, the answer to the
     \* list request, the value returned
     name |-> "", resp |-> [threw |-> TRUE, status |-> 0],
     value |-> [id |-> 0, name |-> "undefined"]]

NoCall == CallOf("none", UndefinedNum, UndefinedNum, "none")

\* The requests as they are logged
HealthRequest == [op |-> "health", a |-> 0, b |-> 0]

ProjectsRequest == [op |-> "projects", a |-> 0, b |-> 0]

ColumnsRequest(projectId) == [op |-> "columns", a |-> projectId, b |-> 0]

CardsRequest(col, pageNumber) == [op |-> "cards", a |-> col, b |-> pageNumber]

MoveRequest(cardId, col) == [op |-> "move", a |-> cardId, b |-> col]

ArchiveRequest(cardId) == [op |-> "archive", a |-> cardId, b |-> 0]

BoardOps == {"projects", "columns", "cards", "move", "archive"}

(***************************************************************************)
(* The functions of src/index.ts.                                          *)
(***************************************************************************)
\* A faulty variant of isSuccessStatus: only 2xx
isSuccessStatusBelow300(status) == 200 <= status /\ status < 300

isSuccessStatus(status) == 200 <= status /\ status < 400

\* A faulty variant of Find: when no element has the name, the first
\* element of the list is returned
FindOrFirst(list, nm) ==
    IF \E i \in DOMAIN list : list[i].name = nm
    THEN list[CHOOSE i \in DOMAIN list :
                 /\ list[i].name = nm
                 /\ \A j \in 1..(i - 1) : list[j].name # nm]
    ELSE IF list = << >> THEN Undefined
    ELSE Head(list)

\* Another faulty variant of Find: the last element with the name
FindLast(list, nm) ==
    IF \E i \in DOMAIN list : list[i].name = nm
    THEN list[CHOOSE i \in DOMAIN list :
                 /\ list[i].name = nm
                 /\ \A j \in (i + 1)..Len(list) : list[j].name # nm]
    ELSE Undefined

\* The first element of list whose name is nm, or undefined
RECURSIVE Find(_, _)
Find(list, nm) ==
    IF list = << >> THEN Undefined
    ELSE IF Head(list).name = nm THEN Head(list)
    ELSE Find(Tail(list), nm)

\* getJSON and getDeployTime on the answer of the health endpoint
getDeployTime(answer) ==
    IF answer.resp.threw THEN Throw
    ELSE IF ~isSuccessStatus(answer.resp.status) THEN Throw
    ELSE IF ~answer.body.parses THEN Throw
    ELSE IF ~answer.body.hasField \/ answer.body.latest_deploy_time = ""
         THEN Throw
    ELSE Return(DateParse(answer.body.latest_deploy_time))

\* The test of the gate: new Date().getTime() - deployTime.getTime() > 86400000
NoRecentDeploy(nowMs, deployed) ==
    NumGt(NumMinus(Num(nowMs), deployed), DAY_MS)

\* getProject: whether it sends its request, and its result given the
\* answer to the request
getProjectSends(name) == name # ""

getProject(name, resp) ==
    IF name = "" THEN Throw
    ELSE IF resp.threw THEN Throw
    ELSE IF ~isSuccessStatus(resp.status) THEN Throw
    ELSE Return(Find(Projects, name))

\* getColumn, likewise
getColumnSends(name, projectId) == name # "" /\ ~NumLt(projectId, 0)

getColumn(name, projectId, resp) ==
    IF name = "" THEN Throw
    ELSE IF NumLt(projectId, 0) THEN Throw
    ELSE IF resp.threw THEN Throw
    ELSE IF ~isSuccessStatus(resp.status) THEN Throw
    ELSE Return(Find(IF IsInteger(projectId) THEN ColumnsOf(projectId.v)
                     ELSE << >>, name))

\* The page the board returns: cards (pageNumber-1)*per_page+1 .. of the
\* not-archived cards of the column
PageOf(col, pageNumber) ==
    LET all   == IF col \in DOMAIN column THEN column[col] ELSE << >>
        first == (pageNumber - 1) * MAX_CARDS_PER_PAGE + 1
        last  == Min(pageNumber * MAX_CARDS_PER_PAGE, Len(all))
    IN  [i \in 1..Max(0, last - first + 1) |-> Card(Num(all[first + i - 1]))]

\* A faulty variant of getCardPage: a page whose fetch fails reads as an
\* empty page
getCardPageEmptyOnFailure(col, pageNumber, resp) ==
    IF ~IsInteger(col) THEN Throw
    ELSE IF NumLt(col, 1) THEN Throw
    ELSE IF ~IsInteger(pageNumber) THEN Throw
    ELSE IF NumLt(pageNumber, 1) THEN Throw
    ELSE IF ~resp.threw /\ isSuccessStatus(resp.status)
         THEN Return(PageOf(col.v, pageNumber.v))
    ELSE Return(<< >>)

\* getCardPage
getCardPageSends(col, pageNumber) ==
    /\ IsInteger(col) /\ ~NumLt(col, 1)
    /\ IsInteger(pageNumber) /\ ~NumLt(pageNumber, 1)

getCardPage(col, pageNumber, resp) ==
    IF ~IsInteger(col) THEN Throw
    ELSE IF NumLt(col, 1) THEN Throw
    ELSE IF ~IsInteger(pageNumber) THEN Throw
    ELSE IF NumLt(pageNumber, 1) THEN Throw
    ELSE IF resp.threw THEN Throw
    ELSE IF isSuccessStatus(resp.status)
         THEN Return(PageOf(col.v, pageNumber.v))
    ELSE Throw

\* getColumnCards: the check of its argument
getColumnCardsValid(col) == IsInteger(col) /\ ~NumLe(col, 0)

\* Faulty variants of MorePages: one that never asks for a second page, one
\* that goes on until a page is empty
MorePagesNever(cardPage) == Len(cardPage) > MAX_CARDS_PER_PAGE

MorePagesUntilEmpty(cardPage) == Len(cardPage) > 0

\* do ... while (cardPage.length === MAX_CARDS_PER_PAGE)
MorePages(cardPage) == Len(cardPage) = MAX_CARDS_PER_PAGE

\* A faulty variant of Reverse: the list is left as it is
ReverseNot(s) == s

\* Array.prototype.reverse
Reverse(s) == [i \in 1..Len(s) |-> s[Len(s) + 1 - i]]

\* Array.prototype.slice(start): start is truncated to an integer (NaN to
\* 0), a negative start counts from the end
Slice(s, start) ==
    LET rel == CASE start.k = "int" -> start.v
                 [] start.k = "frac" ->
                      IF start.v >= 0 THEN start.v ELSE start.v + 1
                 [] OTHER -> 0
        k   == IF rel < 0 THEN Max(Len(s) + rel, 0) ELSE Min(rel, Len(s))
    IN  SubSeq(s, k + 1, Len(s))


(***************************************************************************)
(* The board's side of a move and of an archive request.                   *)
(***************************************************************************)
RECURSIVE Without(_, _)
Without(s, x) ==
    IF s = << >> THEN << >>
    ELSE IF Head(s) = x THEN Without(Tail(s), x)
    ELSE <<Head(s)>> \o Without(Tail(s), x)

\* POST /projects/columns/cards/{card_id}/moves with position: 'top'
MoveOnBoard(cardId, col) ==
    [c \in DOMAIN column |->
        IF c = col THEN <<cardId>> \o Without(column[c], cardId)
        ELSE Without(column[c], cardId)]

\* PATCH /projects/columns/cards/{card_id} with archived: true
ArchiveOnBoard(cardId) == [c \in DOMAIN column |-> Without(column[c], cardId)]

\* The board carries out the requests it answers with a 2xx status
Carried(resp) == ~resp.threw /\ 200 <= resp.status /\ resp.status < 300

(***************************************************************************)
(* moveCards and archiveCards.                                             *)
(***************************************************************************)
\* The request of a card of the batch
NotSent == [kind |-> "none", resp |-> Threw]

InFlight == [kind |-> "sent", resp |-> Threw]

\* moveCard / archiveCard threw on its arguments: no request was sent
Invalid == [kind |-> "invalid", resp |-> Threw]

Settled(resp) == [kind |-> "settled", resp |-> resp]

\* moveCard: the checks of its arguments (lines 301-315)
moveCardValid(cardId, col) ==
    /\ ~NumLe(cardId, 0)
    /\ ~NumLe(col, 0)
    /\ IsInteger(cardId)
    /\ IsInteger(col)

\* archiveCard: the checks of its argument (lines 36-40)
archiveCardValid(cardId) == IsInteger(cardId) /\ ~NumLt(cardId, 1)

\* A faulty variant of Delay: a list of exactly MAX_CARDS_PER_PAGE cards is
\* not throttled
DelayAbovePageSize(cardList) ==
    IF Len(cardList) > MAX_CARDS_PER_PAGE THEN 1000 ELSE 0

\* cards.length >= MAX_CARDS_PER_PAGE ? 1000 : 0
Delay(cardList) == IF Len(cardList) >= MAX_CARDS_PER_PAGE THEN 1000 ELSE 0

\* A faulty variant of moveCardsRejects: only the sign is checked
moveCardsRejectsOnlyNonPositive(col) == NumLe(col, 0)

\* moveCards rejects on its column id
moveCardsRejects(col) == NumLe(col, 0) \/ ~IsInteger(col)

\* A faulty variant of archiveCardsRejects: the sign is not checked
archiveCardsRejectsOnlyNonIntegers(limit) == ~IsInteger(limit)

\* archiveCards rejects on its limit
archiveCardsRejects(limit) == ~IsInteger(limit) \/ NumLt(limit, 0)

\* A faulty variant of CardsToBeArchived: cards.slice(limit + 1)
CardsToBeArchivedOffByOne(cardList, limit) ==
    Slice(cardList, IF limit.k \in {"int", "frac"} THEN [limit EXCEPT !.v = @ + 1]
                    ELSE limit)

\* const cardsToBeArchived = cards.slice(limit)
CardsToBeArchived(cardList, limit) == Slice(cardList, limit)

\* Faulty variants of HandlerClass: every status from 200 on counts as a
\* success; 304 is thrown like any other status; 304 counts as a success
HandlerClassNoUpperBound(resp) ==
    IF resp.threw THEN "failure"
    ELSE IF 200 <= resp.status THEN "success"
    ELSE "failure"

HandlerClass304Fails(resp) ==
    IF resp.threw THEN "failure"
    ELSE IF 200 <= resp.status /\ resp.status < 300 THEN "success"
    ELSE "failure"

HandlerClass304Succeeds(resp) ==
    IF resp.threw THEN "failure"
    ELSE IF (200 <= resp.status /\ resp.status < 300) \/ resp.status = 304
         THEN "success"
    ELSE "failure"

\* What the then-handler does with a settled request: "success" counts the
\* card, "already" logs the INFO line, "failure" throws into the catch
\* handler, which logs the WARNING; a rejected request goes to the catch
\* handler directly.  (response !== null holds of every response.)
HandlerClass(resp) ==
    IF resp.threw THEN "failure"
    ELSE IF 200 <= resp.status /\ resp.status < 300 THEN "success"
    ELSE IF resp.status = 304 THEN "already"
    ELSE "failure"

\* A faulty variant of AllAttempted: the count is compared before it is
\* incremented
AllAttemptedTooEarly(attempts, cardList) == attempts + 1 >= Len(cardList)

\* Another faulty variant of AllAttempted: the requests sent are counted
\* instead of the handlers run
AllAttemptedWhenAllSent(attempts, cardList) == requestSentCount >= Len(cardList)

\* if (cardMoveAttemptCount >= cards.length), after the increment
AllAttempted(attempts, cardList) == attempts >= Len(cardList)

\* if (++requestSentCount >= cards.length) clearInterval(requestInterval)
LastRequest(sent, cardList) == sent >= Len(cardList)

\* resolve(v): only the first call settles the promise
Resolve(v) ==
    /\ resolveCalls' = resolveCalls + 1
    /\ IF promise = "pending"
       THEN promise' = "resolved" /\ promiseValue' = v
       ELSE UNCHANGED <<promise, promiseValue>>

\* The then, catch and finally handlers of one card's request
RunHandlers(class) ==
    LET done     == IF class = "success" THEN cardsDoneCount + 1
                    ELSE cardsDoneCount
        attempts == cardAttemptCount + 1
    IN  /\ cardsDoneCount' = done
        /\ infoCount' = IF class = "already" THEN infoCount + 1 ELSE infoCount
        /\ warnCount' = IF class = "failure" THEN warnCount + 1 ELSE warnCount
        /\ cardAttemptCount' = attempts
        /\ IF AllAttempted(attempts, cards)
           THEN Resolve(done)
           ELSE UNCHANGED <<promise, promiseValue, resolveCalls>>

\* The start of a batch: the counters and the interval
StartBatch(op, cardList, col, delay) ==
    /\ batchOp' = op
    /\ cards' = cardList
    /\ columnId' = col
    /\ delayBetweenRequestsMS' = delay
    /\ requestSentCount' = 0
    /\ cardAttemptCount' = 0
    /\ cardsDoneCount' = 0
    /\ response' = [i \in 1..Len(cardList) |-> NotSent]
    /\ infoCount' = 0
    /\ warnCount' = 0
    /\ overtaken' = FALSE

\* moveCards(cardList, col), up to setInterval (lines 330-361)
moveCards(cardList, col) ==
    /\ StartBatch("move", cardList, col, Delay(cardList))
    /\ IF moveCardsRejects(col)
       THEN /\ promise' = "rejected" /\ promiseValue' = 0
            /\ resolveCalls' = 0 /\ requestInterval' = FALSE
       ELSE IF Len(cardList) = 0
       THEN /\ promise' = "resolved" /\ promiseValue' = 0
            /\ resolveCalls' = 1 /\ requestInterval' = FALSE
       ELSE /\ promise' = "pending" /\ promiseValue' = 0
            /\ resolveCalls' = 0 /\ requestInterval' = TRUE

\* archiveCards(cardList, limit), up to setInterval (lines 54-77)
archiveCards(cardList, limit) ==
    /\ StartBatch("archive", CardsToBeArchived(cardList, limit), UndefinedNum,
                  Delay(cardList))
    /\ IF archiveCardsRejects(limit)
       THEN /\ promise' = "rejected" /\ promiseValue' = 0
            /\ resolveCalls' = 0 /\ requestInterval' = FALSE
       ELSE /\ promise' = "pending" /\ promiseValue' = 0
            /\ resolveCalls' = 0 /\ requestInterval' = TRUE


(***************************************************************************)
(* The timer callback and the completion of a request.                     *)
(***************************************************************************)
\* The handlers of card idx run: noted if a card before it still waits
Overtakes(idx) ==
    overtaken' = (overtaken \/ \E j \in 1..(idx - 1) : response[j].kind = "sent")

\* A faulty variant of TickFires: the timer waits for the answers to the
\* requests already sent
TickFiresWhenIdle ==
    requestInterval /\ \A i \in DOMAIN response : response[i].kind # "sent"

\* setInterval: the callback runs while the interval is set, whatever has
\* become of the requests already sent
TickFires == requestInterval

\* The answer to a request is noted
Answered(resp) == everyRequestOk' = (everyRequestOk /\ Carried(resp))

\* An exception thrown in a timer callback is caught by nobody: the process
\* prints it and exits with code 1
Uncaught ==
    /\ exitCode' = "1"
    /\ error' = "uncaught"
    /\ UNCHANGED <<pc, batchVars, requests, boardVars, everyRequestOk, call>>

\* One firing of the interval of moveCards (lines 361-390)
MoveTick ==
    /\ exitCode = "none"
    /\ batchOp = "move"
    /\ TickFires
    /\ IF requestSentCount + 1 > Len(cards)
       THEN Uncaught      \* card is undefined: card.id throws a TypeError
       ELSE LET idx  == requestSentCount + 1
                card == cards[idx]
            IN  /\ requestSentCount' = idx
                /\ requestInterval' = ~LastRequest(idx, cards)
                /\ IF moveCardValid(card.id, columnId)
                   THEN /\ requests' =
                             Append(requests, MoveRequest(card.id.v, columnId.v))
                        /\ response' = [response EXCEPT ![idx] = InFlight]
                        /\ UNCHANGED <<cardAttemptCount, cardsDoneCount,
                                       infoCount, warnCount, promise,
                                       promiseValue, resolveCalls, overtaken>>
                   ELSE /\ response' = [response EXCEPT ![idx] = Invalid]
                        /\ RunHandlers("failure")
                        /\ Overtakes(idx)
                        /\ UNCHANGED requests
                /\ UNCHANGED <<pc, exitCode, error, boardVars, batchOp, cards,
                               columnId, delayBetweenRequestsMS>>
    /\ UNCHANGED <<configVars, envVars, mainLocals, listVars, everyRequestOk, call>>

\* The request of one card of moveCards settles and its handlers run
MoveSettle ==
    /\ exitCode = "none"
    /\ batchOp = "move"
    /\ \E idx \in DOMAIN response, resp \in WriteResponsesOf(cards) :
          /\ response[idx].kind = "sent"
          /\ response' = [response EXCEPT ![idx] = Settled(resp)]
          /\ RunHandlers(HandlerClass(resp))
          /\ Overtakes(idx)
          /\ Answered(resp)
          /\ column' = IF Carried(resp)
                       THEN MoveOnBoard(cards[idx].id.v, columnId.v)
                       ELSE column
    /\ UNCHANGED <<configVars, envVars, archived, pc, exitCode, error,
                   mainLocals, listVars, batchOp, cards, columnId,
                   delayBetweenRequestsMS, requestSentCount, requestInterval,
                   requests,
                   call>>

\* One firing of the interval of archiveCards (lines 77-106)
ArchiveTick ==
    /\ exitCode = "none"
    /\ batchOp = "archive"
    /\ TickFires
    /\ IF requestSentCount + 1 > Len(cards)
       THEN Uncaught      \* card is undefined: card.id throws a TypeError
       ELSE LET idx  == requestSentCount + 1
                card == cards[idx]
            IN  /\ requestSentCount' = idx
                /\ requestInterval' = ~LastRequest(idx, cards)
                /\ IF archiveCardValid(card.id)
                   THEN /\ requests' =
                             Append(requests, ArchiveRequest(card.id.v))
                        /\ response' = [response EXCEPT ![idx] = InFlight]
                        /\ UNCHANGED <<cardAttemptCount, cardsDoneCount,
                                       infoCount, warnCount, promise,
                                       promiseValue, resolveCalls, overtaken>>
                   ELSE /\ response' = [response EXCEPT ![idx] = Invalid]
                        /\ RunHandlers("failure")
                        /\ Overtakes(idx)
                        /\ UNCHANGED requests
                /\ UNCHANGED <<pc, exitCode, error, boardVars, batchOp, cards,
                               columnId, delayBetweenRequestsMS>>
    /\ UNCHANGED <<configVars, envVars, mainLocals, listVars, everyRequestOk, call>>

\* The request of one card of archiveCards settles and its handlers run
ArchiveSettle ==
    /\ exitCode = "none"
    /\ batchOp = "archive"
    /\ \E idx \in DOMAIN response, resp \in WriteResponsesOf(cards) :
          /\ response[idx].kind = "sent"
          /\ response' = [response EXCEPT ![idx] = Settled(resp)]
          /\ RunHandlers(HandlerClass(resp))
          /\ Overtakes(idx)
          /\ Answered(resp)
          /\ IF Carried(resp)
             THEN /\ column' = ArchiveOnBoard(cards[idx].id.v)
                  /\ archived' = archived \union {cards[idx].id.v}
             ELSE UNCHANGED <<column, archived>>
    /\ UNCHANGED <<configVars, envVars, pc, exitCode, error, mainLocals,
                   listVars, batchOp, cards, columnId, delayBetweenRequestsMS,
                   requestSentCount, requestInterval, requests,
                   call>>


(***************************************************************************)
(* main (lines 394-510).                                                   *)
(***************************************************************************)
\* Another faulty variant of MainFails: the step that failed is tried again
MainFailsAndTriesAgain(step) ==
    /\ pc' = pc
    /\ UNCHANGED <<exitCode, error>>

\* A faulty variant of MainFails: the error is recorded and the process is
\* left running
MainFailsWithoutExit(step) ==
    /\ pc' = "rejected"
    /\ exitCode' = "none"
    /\ error' = step

\* main throws: main().catch logs the error and calls process.exit(1)
MainFails(step) ==
    /\ pc' = "rejected"
    /\ exitCode' = "1"
    /\ error' = step

\* main returns, at line 407 ("noRecentDeploy") or at its end ("finished"):
\* nothing is left to run and the process exits with code 0
MainReturns(at) ==
    /\ pc' = at
    /\ exitCode' = "0"
    /\ UNCHANGED error

Goto(next) ==
    /\ pc' = next
    /\ UNCHANGED <<exitCode, error>>

\* Lines 395-408: the deploy time and the gate
MainGetDeployTime ==
    /\ exitCode = "none"
    /\ pc = "getDeployTime"
    /\ requests' = Append(requests, HealthRequest)
    /\ Answered(health.resp)
    /\ LET r == getDeployTime(health)
       IN  IF r.threw
           THEN MainFails("getDeployTime") /\ UNCHANGED deployTime
           ELSE /\ deployTime' = r.value
                /\ IF NoRecentDeploy(now, r.value)
                   THEN MainReturns("noRecentDeploy")
                   ELSE Goto("validateNames")
    /\ UNCHANGED <<configVars, envVars, boardVars, project, columnIdDone,
                   columnIdQA, QACards, cardsMovedCount, doneCardLimit,
                   doneCards, cardsArchivedCount, listVars, batchVars,
                   call>>

\* Lines 410-424: the configured names
MainValidateNames ==
    /\ exitCode = "none"
    /\ pc = "validateNames"
    /\ IF columnNameDone = "" THEN MainFails("done_column_name")
       ELSE IF columnNameQA = "" THEN MainFails("QA_column_name")
       ELSE IF projectName = "" THEN MainFails("project_name")
       ELSE Goto("getProject")
    /\ UNCHANGED <<configVars, envVars, boardVars, mainLocals, listVars,
                   batchVars, requests, everyRequestOk, call>>

\* Lines 426-435: the project
MainGetProject ==
    /\ exitCode = "none"
    /\ pc = "getProject"
    /\ \E resp \in ReadResponses :
          LET r == getProject(projectName, resp)
          IN  /\ requests' = IF getProjectSends(projectName)
                             THEN Append(requests, ProjectsRequest)
                             ELSE requests
              /\ IF getProjectSends(projectName) THEN Answered(resp)
                 ELSE UNCHANGED everyRequestOk
              /\ IF r.threw \/ r.value = Undefined
                 THEN MainFails("getProject") /\ UNCHANGED project
                 ELSE project' = r.value /\ Goto("getColumnDone")
    /\ UNCHANGED <<configVars, envVars, boardVars, deployTime, columnIdDone,
                   columnIdQA, QACards, cardsMovedCount, doneCardLimit,
                   doneCards, cardsArchivedCount, listVars, batchVars,
                   call>>

\* Lines 437-449: the Done column
MainGetColumnDone ==
    /\ exitCode = "none"
    /\ pc = "getColumnDone"
    /\ \E resp \in ReadResponses :
          LET r == getColumn(columnNameDone, Num(project.id), resp)
          IN  /\ requests' = IF getColumnSends(columnNameDone, Num(project.id))
                             THEN Append(requests, ColumnsRequest(project.id))
                             ELSE requests
              /\ IF getColumnSends(columnNameDone, Num(project.id)) THEN Answered(resp)
                 ELSE UNCHANGED everyRequestOk
              /\ IF r.threw \/ r.value = Undefined
                 THEN MainFails("getColumnDone") /\ UNCHANGED columnIdDone
                 ELSE columnIdDone' = Num(r.value.id) /\ Goto("getColumnQA")
    /\ UNCHANGED <<configVars, envVars, boardVars, deployTime, project,
                   columnIdQA, QACards, cardsMovedCount, doneCardLimit,
                   doneCards, cardsArchivedCount, listVars, batchVars,
                   call>>

\* Lines 451-463: the QA column
MainGetColumnQA ==
    /\ exitCode = "none"
    /\ pc = "getColumnQA"
    /\ \E resp \in ReadResponses :
          LET r == getColumn(columnNameQA, Num(project.id), resp)
          IN  /\ requests' = IF getColumnSends(columnNameQA, Num(project.id))
                             THEN Append(requests, ColumnsRequest(project.id))
                             ELSE requests
              /\ IF getColumnSends(columnNameQA, Num(project.id)) THEN Answered(resp)
                 ELSE UNCHANGED everyRequestOk
              /\ IF r.threw \/ r.value = Undefined
                 THEN MainFails("getColumnQA") /\ UNCHANGED columnIdQA
                 ELSE columnIdQA' = Num(r.value.id) /\ Goto("getQACards")
    /\ UNCHANGED <<configVars, envVars, boardVars, deployTime, project,
                   columnIdDone, QACards, cardsMovedCount, doneCardLimit,
                   doneCards, cardsArchivedCount, listVars, batchVars,
                   call>>

\* getColumnCards up to its loop (lines 184-193)
EnterGetColumnCards(col, step, listing) ==
    IF getColumnCardsValid(col)
    THEN cardIssues' = << >> /\ page' = 1 /\ Goto(listing)
    ELSE MainFails(step) /\ UNCHANGED listVars

\* Lines 465-468: the call of getColumnCards(columnIdQA)
MainGetQACards ==
    /\ exitCode = "none"
    /\ pc = "getQACards"
    /\ EnterGetColumnCards(columnIdQA, "getQACards", "listQA")
    /\ UNCHANGED <<configVars, envVars, boardVars, mainLocals, batchVars,
                   requests, everyRequestOk, call>>

\* One turn of the loop of getColumnCards (lines 195-202), and what main
\* does with the list when the loop ends (lines 468, 496)
GetColumnCardsPage ==
    /\ exitCode = "none"
    /\ pc \in {"listQA", "listDone"}
    /\ \E resp \in ReadResponses :
          LET col == IF pc = "listQA" THEN columnIdQA ELSE columnIdDone
              r   == getCardPage(col, Num(page), resp)
          IN  /\ requests' = IF getCardPageSends(col, Num(page))
                             THEN Append(requests, CardsRequest(col.v, page))
                             ELSE requests
              /\ IF getCardPageSends(col, Num(page)) THEN Answered(resp)
                 ELSE UNCHANGED everyRequestOk
              /\ IF r.threw
                 THEN /\ MainFails(IF pc = "listQA" THEN "getQACards"
                                   ELSE "getDoneCards")
                      /\ UNCHANGED <<listVars, QACards, doneCards>>
                 ELSE /\ cardIssues' = cardIssues \o r.value
                      /\ page' = page + 1
                      /\ IF MorePages(r.value)
                         THEN Goto(pc) /\ UNCHANGED <<QACards, doneCards>>
                         ELSE IF pc = "listQA"
                         THEN /\ QACards' = cardIssues'
                              /\ Goto("moveCards")
                              /\ UNCHANGED doneCards
                         ELSE /\ doneCards' = cardIssues'
                              /\ Goto("archiveCards")
                              /\ UNCHANGED QACards
    /\ UNCHANGED <<configVars, envVars, boardVars, deployTime, project,
                   columnIdDone, columnIdQA, cardsMovedCount, doneCardLimit,
                   cardsArchivedCount, batchVars,
                   call>>

\* A faulty variant of MoveTarget: the cards are moved to the QA column
MoveTargetQA == columnIdQA

\* The column main moves the cards to (line 475)
MoveTarget == columnIdDone

\* Line 475: QACards.reverse() reverses the list in place; moveCards
MainMoveCards ==
    /\ exitCode = "none"
    /\ pc = "moveCards"
    /\ QACards' = Reverse(QACards)
    /\ moveCards(QACards', MoveTarget)
    /\ Goto("awaitMove")
    /\ UNCHANGED <<configVars, envVars, boardVars, deployTime, project,
                   columnIdDone, columnIdQA, cardsMovedCount, doneCardLimit,
                   doneCards, cardsArchivedCount, listVars, requests, everyRequestOk, call>>

\* Lines 475-496: the promise of moveCards is settled; the limit is parsed
\* and getColumnCards(columnIdDone) is called
MainAfterMove ==
    /\ exitCode = "none"
    /\ pc = "awaitMove"
    /\ promise # "pending"
    /\ IF promise = "rejected"
       THEN /\ MainFails("moveCards")
            /\ UNCHANGED <<cardsMovedCount, doneCardLimit, listVars>>
       ELSE /\ cardsMovedCount' = promiseValue
            /\ doneCardLimit' = ParseInt(cardLimitColumnDone)
            /\ EnterGetColumnCards(columnIdDone, "getDoneCards", "listDone")
    /\ UNCHANGED <<configVars, envVars, boardVars, deployTime, project,
                   columnIdDone, columnIdQA, QACards, doneCards,
                   cardsArchivedCount, batchVars, requests, everyRequestOk, call>>

\* Line 503: archiveCards
MainArchiveCards ==
    /\ exitCode = "none"
    /\ pc = "archiveCards"
    /\ archiveCards(doneCards, doneCardLimit)
    /\ Goto("awaitArchive")
    /\ UNCHANGED <<configVars, envVars, boardVars, mainLocals, listVars,
                   requests, everyRequestOk, call>>

\* Lines 503-505: the promise of archiveCards is settled
MainAfterArchive ==
    /\ exitCode = "none"
    /\ pc = "awaitArchive"
    /\ promise # "pending"
    /\ IF promise = "rejected"
       THEN MainFails("archiveCards") /\ UNCHANGED cardsArchivedCount
       ELSE cardsArchivedCount' = promiseValue /\ MainReturns("finished")
    /\ UNCHANGED <<configVars, envVars, boardVars, deployTime, project,
                   columnIdDone, columnIdQA, QACards, cardsMovedCount,
                   doneCardLimit, doneCards, listVars, batchVars, requests, everyRequestOk, call>>


(***************************************************************************)
(* The runs of the program.                                                *)
(***************************************************************************)
\* A scenario: the configured inputs, the environment and the board a run
\* starts from
BaseScenario ==
    [ projectName |-> "CASA", columnNameDone |-> "Done", columnNameQA |-> "QA",
      cardLimitColumnDone |-> <<"1">>,
      health |-> HealthAnswer(Resp(200), DeployedAt),
      now |-> DAY_MS + 7200000, nQA |-> 1, nDone |-> 1 ]

\* Every answer of the health endpoint at every time of the clock; every
\* choice of names; every limit with every number of QA and Done cards
Scenarios ==
    { [BaseScenario EXCEPT !.health = h, !.now = t] :
          h \in HealthAnswers, t \in Clock }
    \union
    { [BaseScenario EXCEPT !.projectName = p, !.columnNameDone = d,
                           !.columnNameQA = q] :
          p \in ProjectNames, d \in DoneNames, q \in QANames }
    \union
    { [BaseScenario EXCEPT !.cardLimitColumnDone = l, !.nQA = a, !.nDone = b] :
          l \in LimitInputs, a \in 0..MaxQA, b \in 0..MaxDone }

\* No batch has been called
NoBatch ==
    /\ batchOp = "none"
    /\ cards = << >>
    /\ columnId = UndefinedNum
    /\ delayBetweenRequestsMS = 0
    /\ requestSentCount = 0
    /\ cardAttemptCount = 0
    /\ cardsDoneCount = 0
    /\ requestInterval = FALSE
    /\ response = << >>
    /\ promise = "none"
    /\ promiseValue = 0
    /\ infoCount = 0
    /\ warnCount = 0
    /\ resolveCalls = 0
    /\ overtaken = FALSE

\* main's locals are not assigned
NoLocals ==
    /\ deployTime = UndefinedNum
    /\ project = Undefined
    /\ columnIdDone = UndefinedNum
    /\ columnIdQA = UndefinedNum
    /\ QACards = << >>
    /\ cardsMovedCount = 0
    /\ doneCardLimit = UndefinedNum
    /\ doneCards = << >>
    /\ cardsArchivedCount = 0
    /\ cardIssues = << >>
    /\ page = 1

StartsFrom(sc) ==
    /\ projectName = sc.projectName
    /\ columnNameDone = sc.columnNameDone
    /\ columnNameQA = sc.columnNameQA
    /\ cardLimitColumnDone = sc.cardLimitColumnDone
    /\ health = sc.health
    /\ now = sc.now
    /\ column = [c \in ColumnIds |->
                   IF c = 11 THEN QAIds(sc.nQA)
                   ELSE IF c = 12 THEN DoneIds(sc.nDone)
                   ELSE << >>]
    /\ archived = {}

\* The process starts: main is called (line 507)
Init ==
    /\ \E sc \in Scenarios : StartsFrom(sc)
    /\ pc = "getDeployTime"
    /\ exitCode = "none"
    /\ error = ""
    /\ NoLocals
    /\ NoBatch
    /\ requests = << >>
    /\ everyRequestOk = TRUE
    /\ call = NoCall

Next ==
    \/ MainGetDeployTime
    \/ MainValidateNames
    \/ MainGetProject
    \/ MainGetColumnDone
    \/ MainGetColumnQA
    \/ MainGetQACards
    \/ GetColumnCardsPage
    \/ MainMoveCards
    \/ MoveTick
    \/ MoveSettle
    \/ MainAfterMove
    \/ MainArchiveCards
    \/ ArchiveTick
    \/ ArchiveSettle
    \/ MainAfterArchive

Spec == Init /\ [][Next]_vars

(***************************************************************************)
(* moveCards and archiveCards called on their own, with any arguments.     *)
(***************************************************************************)
\* The lists of at most MaxBatch cards with different ids, valid or not
CardIdArgs == {Num(1), Num(2), Num(3), Num(4), Num(0), Half(1)}

CardLists ==
    { l \in UNION { [1..n -> {Card(i) : i \in CardIdArgs}] : n \in 0..MaxBatch } :
        /\ \A i, j \in DOMAIN l : i # j => l[i] # l[j]
        /\ \A i \in DOMAIN l : IsInteger(l[i].id) /\ l[i].id.v > 0 => l[i].id.v <= Len(l) }

ColumnIdArgs == {Num(12), Num(0), Num(-1), Half(12), NaN}

LimitArgs == {Num(0), Num(1), Num(2), Num(3), Num(-1), Half(1), NaN}

BatchInit ==
    /\ StartsFrom(BaseScenario)
    /\ pc = "caller"
    /\ exitCode = "none"
    /\ error = ""
    /\ NoLocals
    /\ NoBatch
    /\ requests = << >>
    /\ everyRequestOk = TRUE
    /\ call = NoCall

CallMoveCards ==
    /\ exitCode = "none"
    /\ pc = "caller"
    /\ batchOp = "none"
    /\ \E cardList \in CardLists, col \in ColumnIdArgs : moveCards(cardList, col)
    /\ UNCHANGED <<configVars, envVars, boardVars, pc, exitCode, error,
                   mainLocals, listVars, requests, everyRequestOk, call>>

\* The caller keeps its arguments in doneCards and doneCardLimit, as main does
CallArchiveCards ==
    /\ exitCode = "none"
    /\ pc = "caller"
    /\ batchOp = "none"
    /\ \E cardList \in CardLists, limit \in LimitArgs :
          /\ doneCards' = cardList
          /\ doneCardLimit' = limit
          /\ archiveCards(cardList, limit)
    /\ UNCHANGED <<configVars, envVars, boardVars, pc, exitCode, error,
                   deployTime, project, columnIdDone, columnIdQA, QACards,
                   cardsMovedCount, cardsArchivedCount, listVars, requests,
                   everyRequestOk, call>>

BatchNext ==
    \/ CallMoveCards
    \/ MoveTick
    \/ MoveSettle
    \/ CallArchiveCards
    \/ ArchiveTick
    \/ ArchiveSettle

BatchSpec == BatchInit /\ [][BatchNext]_vars

\* The timer goes on firing while the interval is set, and every request
\* sent is answered or fails in the end
BatchFairness ==
    /\ WF_vars(MoveTick)
    /\ WF_vars(MoveSettle)
    /\ WF_vars(ArchiveTick)
    /\ WF_vars(ArchiveSettle)

BatchLiveSpec == BatchSpec /\ BatchFairness

(***************************************************************************)
(* Each function that checks an id called on its own, with any arguments.  *)
(***************************************************************************)
ProjectIdArgs == {Num(2), Num(0), Num(-1), Half(2), Half(-3), NaN}

PageArgs == {Num(1), Num(2), Num(0), Num(-1), Half(1), NaN}

OneCardIdArgs == CardIdArgs \union {Num(-1), Half(-3), NaN}

OneColumnIdArgs == ColumnIdArgs \union {Num(11), Half(-3)}

\* The caller has called nothing yet
AtCaller ==
    /\ exitCode = "none"
    /\ pc = "caller"
    /\ batchOp = "none"
    /\ call.op = "none"

Outcome(r) == IF r.threw THEN "threw" ELSE "returned"

\* getDeployTime(), the health endpoint answering with any status and a
\* body that has a deploy time
CallGetDeployTime ==
    /\ AtCaller
    /\ \E resp \in AnyResponse :
          LET r == getDeployTime(HealthAnswer(resp, DeployedAt))
          IN  /\ call' = [CallOf("getDeployTime", UndefinedNum, UndefinedNum,
                                 Outcome(r))
                            EXCEPT !.resp = resp]
              /\ deployTime' = IF r.threw THEN deployTime ELSE r.value
              /\ requests' = Append(requests, HealthRequest)
              /\ Answered(resp)
    /\ Goto("called")
    /\ UNCHANGED <<configVars, envVars, boardVars, project, columnIdDone,
                   columnIdQA, QACards, cardsMovedCount, doneCardLimit,
                   doneCards, cardsArchivedCount, listVars, batchVars>>

\* The names looked up: none, names of the lists, a name that differs from
\* one of a list in the case of a letter, a name of no list
LookupNames == {"", "CASA", "Done", "done", "QA", "Kanban"}

\* getProject(name)
CallGetProject ==
    /\ AtCaller
    /\ \E name \in LookupNames, resp \in AnyResponse :
          LET r == getProject(name, resp)
          IN  /\ call' = [CallOf("getProject", UndefinedNum, UndefinedNum,
                                 Outcome(r))
                            EXCEPT !.name = name, !.resp = resp,
                                   !.value = r.value]
              /\ IF getProjectSends(name)
                 THEN /\ requests' = Append(requests, ProjectsRequest)
                      /\ Answered(resp)
                 ELSE UNCHANGED <<requests, everyRequestOk>>
              /\ projectName' = name
    /\ Goto("called")
    /\ UNCHANGED <<cardLimitColumnDone, columnNameDone, columnNameQA, envVars,
                   boardVars, mainLocals, listVars, batchVars>>

\* getColumn(name, projectId)
CallGetColumn ==
    /\ AtCaller
    /\ \E name \in LookupNames, projectId \in ProjectIdArgs,
          resp \in AnyResponse :
          LET r == getColumn(name, projectId, resp)
          IN  /\ call' = [CallOf("getColumn", projectId, UndefinedNum, Outcome(r))
                            EXCEPT !.name = name, !.resp = resp,
                                   !.value = r.value]
              /\ IF getColumnSends(name, projectId)
                 THEN /\ requests' = Append(requests, ColumnsRequest(projectId))
                      /\ Answered(resp)
                 ELSE UNCHANGED <<requests, everyRequestOk>>
              /\ columnNameDone' = name
    /\ Goto("called")
    /\ UNCHANGED <<cardLimitColumnDone, columnNameQA, projectName, envVars,
                   boardVars, mainLocals, listVars, batchVars>>

\* getCardPage(columnId, pageNumber)
CallGetCardPage ==
    /\ AtCaller
    /\ \E col \in OneColumnIdArgs, pageNumber \in PageArgs,
          resp \in AnyResponse :
          LET r == getCardPage(col, pageNumber, resp)
          IN  /\ call' = [CallOf("getCardPage", col, pageNumber, Outcome(r))
                            EXCEPT !.resp = resp]
              /\ IF getCardPageSends(col, pageNumber)
                 THEN /\ requests' =
                           Append(requests, CardsRequest(col.v, pageNumber.v))
                      /\ Answered(resp)
                 ELSE UNCHANGED <<requests, everyRequestOk>>
    /\ Goto("called")
    /\ UNCHANGED <<configVars, envVars, boardVars, mainLocals, listVars,
                   batchVars>>

\* getColumnCards(columnId): the pages are fetched by GetColumnCardsPage,
\* the caller keeping the column id in columnIdQA as main does
CallGetColumnCards ==
    /\ AtCaller
    /\ \E col \in OneColumnIdArgs :
          /\ columnIdQA' = col
          /\ IF getColumnCardsValid(col)
             THEN /\ call' = CallOf("getColumnCards", col, UndefinedNum, "running")
                  /\ cardIssues' = << >> /\ page' = 1
                  /\ Goto("listQA")
             ELSE /\ call' = CallOf("getColumnCards", col, UndefinedNum, "threw")
                  /\ Goto("called")
                  /\ UNCHANGED listVars
    /\ UNCHANGED <<configVars, envVars, boardVars, deployTime, project,
                   columnIdDone, QACards, cardsMovedCount, doneCardLimit,
                   doneCards, cardsArchivedCount, batchVars, requests,
                   everyRequestOk>>

\* moveCard(cardId, columnId), with the board's answer
CallMoveCard ==
    /\ AtCaller
    /\ \E cardId \in OneCardIdArgs, col \in OneColumnIdArgs,
          resp \in AnyResponse :
          IF moveCardValid(cardId, col)
          THEN /\ call' = CallOf("moveCard", cardId, col,
                                 IF resp.threw THEN "threw" ELSE "returned")
               /\ requests' = Append(requests, MoveRequest(cardId.v, col.v))
               /\ Answered(resp)
               /\ column' = IF Carried(resp) /\ col.v \in DOMAIN column
                            THEN MoveOnBoard(cardId.v, col.v) ELSE column
          ELSE /\ call' = CallOf("moveCard", cardId, col, "threw")
               /\ UNCHANGED <<requests, everyRequestOk, column>>
    /\ Goto("called")
    /\ UNCHANGED <<configVars, envVars, archived, mainLocals, listVars,
                   batchVars>>

\* archiveCard(cardId), with the board's answer
CallArchiveCard ==
    /\ AtCaller
    /\ \E cardId \in OneCardIdArgs, resp \in AnyResponse :
          IF archiveCardValid(cardId)
          THEN /\ call' = CallOf("archiveCard", cardId, UndefinedNum,
                                 IF resp.threw THEN "threw" ELSE "returned")
               /\ requests' = Append(requests, ArchiveRequest(cardId.v))
               /\ Answered(resp)
               /\ IF Carried(resp)
                  THEN /\ column' = ArchiveOnBoard(cardId.v)
                       /\ archived' = archived \union {cardId.v}
                  ELSE UNCHANGED <<column, archived>>
          ELSE /\ call' = CallOf("archiveCard", cardId, UndefinedNum, "threw")
               /\ UNCHANGED <<requests, everyRequestOk, column, archived>>
    /\ Goto("called")
    /\ UNCHANGED <<configVars, envVars, mainLocals, listVars, batchVars>>

CallNext ==
    \/ CallGetDeployTime
    \/ CallGetProject
    \/ CallGetColumn
    \/ CallGetCardPage
    \/ CallGetColumnCards
    \/ GetColumnCardsPage
    \/ CallMoveCard
    \/ CallArchiveCard
    \/ CallMoveCards
    \/ MoveTick
    \/ MoveSettle
    \/ CallArchiveCards
    \/ ArchiveTick
    \/ ArchiveSettle

CallSpec == BatchInit /\ [][CallNext]_vars


(***************************************************************************)
(* Notions the claims are stated with.                                     *)
(***************************************************************************)
\* The requests of the log that satisfy a test, in order
IsBoardRequest(r) == r.op \in BoardOps

IsMoveRequest(r) == r.op = "move"

IsArchiveRequest(r) == r.op = "archive"

BoardRequests == SelectSeq(requests, IsBoardRequest)

MoveRequests == SelectSeq(requests, IsMoveRequest)

ArchiveRequests == SelectSeq(requests, IsArchiveRequest)

\* The number of requests of kind op sent for the card with id cardId
RequestsFor(op, cardId) ==
    Cardinality({k \in DOMAIN requests :
                    requests[k].op = op /\ requests[k].a = cardId})

\* The cards of the running batch by what became of their request
Attempted == {i \in DOMAIN response : response[i].kind \in {"settled", "invalid"}}

Answered2xx ==
    {i \in DOMAIN response :
        response[i].kind = "settled" /\ Carried(response[i].resp)}

Answered304 ==
    {i \in DOMAIN response :
        /\ response[i].kind = "settled"
        /\ ~response[i].resp.threw
        /\ response[i].resp.status = 304}

Failed == Attempted \ (Answered2xx \union Answered304)

\* A batch was called and its argument passed the validation
BatchRuns == batchOp # "none" /\ promise # "rejected"

(***************************************************************************)
(* C1.  The run proceeds past the gate exactly when now - deployTime <=    *)
(* 86,400,000 ms; when the difference is greater, the run ends normally    *)
(* having sent no request to the board.                                    *)
(***************************************************************************)
\* getDeployTime has returned and the gate has been evaluated
GateEvaluated == pc # "getDeployTime" /\ error # "getDeployTime"

PassedGate == GateEvaluated /\ pc # "noRecentDeploy"

Age == NumMinus(Num(now), deployTime)

EndedAtGate ==
    /\ pc = "noRecentDeploy"
    /\ exitCode = "0"
    /\ error = ""
    /\ BoardRequests = << >>

\* C1 as claimed.  It fails when latest_deploy_time is no date: the age is
\* NaN, which is neither <= 86,400,000 nor > 86,400,000, and the run
\* proceeds
C1_GateExactlyWithinADay ==
    GateEvaluated =>
        /\ PassedGate <=> NumLe(Age, DAY_MS)
        /\ NumGt(Age, DAY_MS) => EndedAtGate

\* For the deploy times that are dates the gate is as claimed
C1_GateOfValidDates ==
    GateEvaluated /\ IsInteger(deployTime) =>
        /\ PassedGate <=> Age.v <= DAY_MS
        /\ Age.v > DAY_MS => EndedAtGate

C1_ProceedsAtExactlyADay ==
    PassedGate /\ IsInteger(deployTime) /\ Age.v = DAY_MS

(***************************************************************************)
(* C2.  The promise of a batch is resolved exactly once, only after every  *)
(* card of the batch has had exactly one request issued and the handlers   *)
(* of that request have run, and with the number of cards whose request    *)
(* returned a status in 200..299.                                          *)
(***************************************************************************)
\* The cards of the batch whose id passes the check of moveCard/archiveCard
ValidCard(i) ==
    IF batchOp = "move" THEN moveCardValid(cards[i].id, columnId)
    ELSE archiveCardValid(cards[i].id)

C3_EmptyBatchResolvesWithZero ==
    BatchRuns /\ cards = << >> =>
        /\ requests = << >>
        /\ \/ promise = "resolved" /\ promiseValue = 0
           \/ promise = "pending" /\ exitCode = "none"


(***************************************************************************)
(* C4.  archiveCards(cards, L) with a valid limit L sends archive requests *)
(* to exactly the cards at indices L..N-1 of its list, each once and in    *)
(* list order, and to no card at an index below L.                         *)
(***************************************************************************)
\* The cards beyond the limit, counted from the list main passes
BeyondLimit == SubSeq(doneCards, doneCardLimit.v + 1, Len(doneCards))

C4_ArchiveSelection ==
    batchOp = "archive" /\ promise # "rejected" =>
        /\ Len(ArchiveRequests) <= Len(BeyondLimit)
        /\ \A k \in DOMAIN ArchiveRequests :
              ArchiveRequests[k].a = BeyondLimit[k].id.v
        /\ \A i \in 1..Min(doneCardLimit.v, Len(doneCards)) :
              RequestsFor("archive", doneCards[i].id.v) = 0
        /\ promise = "resolved" =>
              /\ Len(ArchiveRequests) = Max(0, Len(doneCards) - doneCardLimit.v)
              /\ \A i \in doneCardLimit.v + 1 .. Len(doneCards) :
                    RequestsFor("archive", doneCards[i].id.v) = 1

C4_ArchivedTheTailOfFour ==
    /\ batchOp = "archive"
    /\ promise = "resolved"
    /\ Len(doneCards) = 4
    /\ doneCardLimit = Num(2)
    /\ Len(ArchiveRequests) = 2

(***************************************************************************)
(* C5.  After a run that passes the gate, finds the project and both       *)
(* columns, and in which every request succeeds, the Done column holds at  *)
(* most done_column_card_limit not-archived cards, whatever the numbers of *)
(* Done and QA cards the run starts with.                                  *)
(***************************************************************************)
RunEnded == exitCode # "none"

\* The project and the two columns were found
BoardLocated == columnIdQA # UndefinedNum

\* The configured limit reads as a non-negative integer
ConfiguredLimit == ParseInt(cardLimitColumnDone)

LimitIsValid == IsInteger(ConfiguredLimit) /\ ConfiguredLimit.v >= 0

C5_DoneColumnWithinLimit ==
    RunEnded /\ BoardLocated /\ everyRequestOk /\ LimitIsValid =>
        Len(column[columnIdDone.v]) <= ConfiguredLimit.v

C5_TrimmedToLimit ==
    /\ pc = "finished"
    /\ everyRequestOk
    /\ ConfiguredLimit = Num(2)
    /\ cardsMovedCount = 2
    /\ cardsArchivedCount = 2
    /\ Len(column[columnIdDone.v]) = 2

(***************************************************************************)
(* C6.  Every card of the QA listing receives exactly one move request,    *)
(* to the Done column; no other card receives one; if every move request   *)
(* returns 2xx, the moved count is the number of listed QA cards.          *)
(***************************************************************************)
\* The cards that were in the QA column when the run started: cards are
\* only moved or archived, and those of the Done column have ids above 100
AllCards == UNION {{column[c][i] : i \in DOMAIN column[c]} : c \in DOMAIN column}
               \union archived

InitialQACards == {c \in AllCards : c < 100}

\* The Done column as the board names it: the first column called so
DoneColumnOfBoard == Find(ColumnsOf(project.id), columnNameDone).id

MoveBatchResolved ==
    \/ batchOp = "move" /\ promise = "resolved"
    \/ batchOp = "archive"

C6_EveryQACardMovedOnce ==
    /\ \A k \in DOMAIN MoveRequests :
          /\ MoveRequests[k].a \in InitialQACards
          /\ MoveRequests[k].b = DoneColumnOfBoard
          /\ RequestsFor("move", MoveRequests[k].a) = 1
    /\ MoveBatchResolved =>
          \A c \in InitialQACards : RequestsFor("move", c) = 1
    /\ pc \in {"listDone", "archiveCards"} /\ Answered2xx = DOMAIN response =>
          cardsMovedCount = Cardinality(InitialQACards)

C6_MovedBothQACards ==
    /\ pc = "archiveCards"
    /\ Cardinality(InitialQACards) = 2
    /\ Len(MoveRequests) = 2
    /\ cardsMovedCount = 2


(***************************************************************************)
(* C7.  A card whose request returns a status outside 200..299 other than  *)
(* 304, or throws, or whose id fails the check of moveCard/archiveCard, is *)
(* counted as attempted and not as a success; it does not reject the       *)
(* promise of the batch and does not stop the requests of the other cards. *)
(***************************************************************************)
C7_FailureIsIsolated ==
    /\ promise = "rejected" => requestSentCount = 0 /\ cardAttemptCount = 0
    /\ BatchRuns =>
          /\ cardAttemptCount = Cardinality(Attempted)
          /\ cardsDoneCount = Cardinality(Attempted \ (Failed \union Answered304))
          /\ Failed # {} => promise \in {"pending", "resolved"}
          \* the interval stays set until the last card's request is sent
          /\ cards # << >> => (requestInterval <=> requestSentCount < Len(cards))
          /\ \A i \in 1..requestSentCount : response[i].kind # "none"

\* The first card's id is invalid and the last card's request fails; the
\* card between them is requested and counted all the same
C7_RequestedAfterAFailure ==
    /\ batchOp = "move"
    /\ Len(cards) = 3
    /\ response[1].kind = "invalid"
    /\ response[2] = Settled(Resp(200))
    /\ response[3] = Settled(Resp(404))
    /\ promise = "resolved"
    /\ promiseValue = 1
    /\ cardAttemptCount = 3

(***************************************************************************)
(* C8.  When a batch completes, successes + already-in-state (304) +       *)
(* failures = attempted cards = size of the batch, with every card in      *)
(* exactly one of the three classes, in whatever order the responses       *)
(* arrive.                                                                 *)
(***************************************************************************)
C8_CountsAddUp ==
    BatchRuns =>
        /\ cardsDoneCount + infoCount + warnCount = cardAttemptCount
        /\ cardsDoneCount = Cardinality(Answered2xx)
        /\ infoCount = Cardinality(Answered304)
        /\ warnCount = Cardinality(Failed)
        /\ promise = "resolved" =>
              cardsDoneCount + infoCount + warnCount = Len(cards)

\* A resolved batch of three with one card of each class, the last answered 200
C8_OneOfEachClass ==
    /\ promise = "resolved"
    /\ Len(cards) = 3
    /\ cardsDoneCount = 1
    /\ infoCount = 1
    /\ warnCount = 1
    /\ response[3] = Settled(Resp(200))

(***************************************************************************)
(* C9.  A card whose request returns 304 is neither added to the success   *)
(* count nor handled as a failure; a batch whose every card returns 304    *)
(* is resolved, not rejected, with 0.                                      *)
(***************************************************************************)
C9_AlreadyInStateIsNoSuccess ==
    BatchRuns =>
        /\ cardsDoneCount + warnCount = cardAttemptCount - Cardinality(Answered304)
        /\ cardsDoneCount <= Cardinality(DOMAIN response \ Answered304)
        /\ cards # << >> /\ Answered304 = DOMAIN cards =>
              /\ promise = "resolved"
              /\ promiseValue = 0
              /\ warnCount = 0
              /\ infoCount = Len(cards)

C9_EveryCardAlreadyInState ==
    /\ batchOp = "move"
    /\ Len(cards) = 2
    /\ Answered304 = DOMAIN cards
    /\ promise = "resolved"

(***************************************************************************)
(* C10.  getColumnCards requests the pages 1, 2, 3, ... one at a time; it  *)
(* stops after the first page shorter than the page size and never after a *)
(* full page; its result is the pages in order, so that its length is the  *)
(* sum of their lengths.                                                   *)
(***************************************************************************)
IsQAPageRequest(r) == r.op = "cards" /\ r.a = 11

IsDonePageRequest(r) == r.op = "cards" /\ r.a = 12

\* The pages 1..k of a column, one after the other, and their total length
RECURSIVE PagesInOrder(_, _)
PagesInOrder(col, k) ==
    IF k = 0 THEN << >> ELSE PagesInOrder(col, k - 1) \o PageOf(col, k)

RECURSIVE SumOfPageLengths(_, _)
SumOfPageLengths(col, k) ==
    IF k = 0 THEN 0 ELSE SumOfPageLengths(col, k - 1) + Len(PageOf(col, k))

\* The listing of column col, of which the page requests are reqs, is under
\* way (listing) or has just returned result
ListedInPages(col, reqs, listing, result) ==
    LET k == Len(reqs)
    IN  /\ \A j \in 1..k : reqs[j].b = j
        /\ cardIssues = PagesInOrder(col, k)
        /\ Len(cardIssues) = SumOfPageLengths(col, k)
        /\ \A j \in 1..(k - 1) : Len(PageOf(col, j)) = MAX_CARDS_PER_PAGE
        /\ IF listing
           THEN /\ page = k + 1
                /\ k >= 1 => Len(PageOf(col, k)) = MAX_CARDS_PER_PAGE
           ELSE /\ k >= 1
                /\ Len(PageOf(col, k)) < MAX_CARDS_PER_PAGE
                /\ result = cardIssues

C10_PagesInOrderUntilShortPage ==
    /\ pc \in {"listQA", "moveCards"} =>
          ListedInPages(11, SelectSeq(requests, IsQAPageRequest),
                        pc = "listQA", QACards)
    /\ pc \in {"listDone", "archiveCards"} =>
          ListedInPages(12, SelectSeq(requests, IsDonePageRequest),
                        pc = "listDone", doneCards)

\* Two full pages and an empty one
C10_ThreePagesOfDone ==
    /\ pc = "archiveCards"
    /\ Len(SelectSeq(requests, IsDonePageRequest)) = 3
    /\ Len(doneCards) = 2 * MAX_CARDS_PER_PAGE

(***************************************************************************)
(* C11.  If a page fetch of getColumnCards fails, getColumnCards fails: no *)
(* further page is requested, main gets no list, and main sends no move    *)
(* request after a failed QA listing and no archive request after a failed *)
(* Done listing.  A list that main does get is the whole column.           *)
(***************************************************************************)
Last(s) == s[Len(s)]

\* The not-archived cards of a column as a listing returns them
WholeColumn(col) == [i \in DOMAIN column[col] |-> Card(Num(column[col][i]))]

C11_ListerAllOrNothing ==
    /\ error = "getQACards" =>
          /\ pc = "rejected" /\ exitCode = "1"
          /\ Last(requests) = CardsRequest(columnIdQA.v, page)
          /\ QACards = << >>
          /\ batchOp = "none"
          /\ MoveRequests = << >> /\ ArchiveRequests = << >>
    /\ error = "getDoneCards" =>
          /\ pc = "rejected" /\ exitCode = "1"
          /\ Last(requests) = CardsRequest(columnIdDone.v, page)
          /\ doneCards = << >>
          /\ batchOp = "move"
          /\ ArchiveRequests = << >>
    /\ pc = "moveCards" => QACards = WholeColumn(columnIdQA.v)
    /\ pc = "archiveCards" => doneCards = WholeColumn(columnIdDone.v)

\* The Done listing fails at its second page, after the cards were moved
C11_FailedAtTheSecondPage ==
    /\ error = "getDoneCards"
    /\ Len(SelectSeq(requests, IsDonePageRequest)) = 2
    /\ Len(MoveRequests) = 2
    /\ doneCards = << >>

(***************************************************************************)
(* C12.  moveCards with a column id that is no integer id (zero, negative, *)
(* not an integer, NaN) and archiveCards with a limit that is negative or  *)
(* not an integer (NaN included) reject the promise and send no request    *)
(* for any card, whatever the list of cards, the empty list included.      *)
(***************************************************************************)
IsIntegerId(x) == x.k = "int" /\ x.v >= 1

IsLimit(x) == x.k = "int" /\ x.v >= 0

\* Nothing of the batch has happened
NothingSent ==
    /\ requests = << >>
    /\ requestSentCount = 0
    /\ cardAttemptCount = 0
    /\ ~requestInterval
    /\ \A i \in DOMAIN response : response[i] = NotSent
    /\ column = [c \in ColumnIds |->
                   IF c = 11 THEN QAIds(1) ELSE IF c = 12 THEN DoneIds(1)
                   ELSE << >>]

C12_InvalidBatchArgumentRejects ==
    /\ batchOp = "move" /\ ~IsIntegerId(columnId) =>
          promise = "rejected" /\ NothingSent
    /\ batchOp = "archive" /\ ~IsLimit(doneCardLimit) =>
          promise = "rejected" /\ NothingSent
    /\ promise = "rejected" => exitCode = "none"

\* The column id is checked before the list is found empty
C12_RejectedAnEmptyList ==
    /\ batchOp = "move"
    /\ cards = << >>
    /\ columnId = Half(12)
    /\ promise = "rejected"

(***************************************************************************)
(* C13.  Each function that takes an id or a limit (getCardPage,           *)
(* getColumnCards, getColumn, moveCard, moveCards, archiveCard,            *)
(* archiveCards) fails before it sends a request when that argument is     *)
(* negative or not an integer.                                             *)
(***************************************************************************)
NegativeOrNoInteger(x) == ~(x.k = "int" /\ x.v >= 0)

\* The call under way was given an id that is negative or no integer
BadIdArgument ==
    \/ /\ call.op \in {"getColumn", "getColumnCards", "getCardPage",
                        "moveCard", "archiveCard"}
       /\ NegativeOrNoInteger(call.a)
    \/ /\ call.op \in {"getCardPage", "moveCard"}
       /\ NegativeOrNoInteger(call.b)

\* C13 as claimed.  It fails for getColumn, which only tests projectId < 0:
\* a projectId that is no integer passes and the request is sent
C13_BadIdFailsBeforeRequest ==
    /\ BadIdArgument => call.outcome = "threw" /\ requests = << >>
    /\ batchOp = "move" /\ NegativeOrNoInteger(columnId) =>
          promise = "rejected" /\ requests = << >>
    /\ batchOp = "archive" /\ NegativeOrNoInteger(doneCardLimit) =>
          promise = "rejected" /\ requests = << >>

\* The functions other than getColumn all fail as claimed
C13_ExceptGetColumn ==
    /\ BadIdArgument /\ call.op # "getColumn" =>
          call.outcome = "threw" /\ requests = << >>
    /\ call.op = "getColumn" /\ NumLt(call.a, 0) =>
          call.outcome = "threw" /\ requests = << >>
    /\ batchOp = "move" /\ NegativeOrNoInteger(columnId) =>
          promise = "rejected" /\ requests = << >>
    /\ batchOp = "archive" /\ NegativeOrNoInteger(doneCardLimit) =>
          promise = "rejected" /\ requests = << >>

(***************************************************************************)
(* C14.  getDeployTime fails, and the run ends before any request to the   *)
(* board, when the health request fails or returns a status outside        *)
(* 200..399, when the body is no JSON, when latest_deploy_time is missing, *)
(* or when it is no valid date; no run passes the gate with a deploy time  *)
(* that is not a point in time.                                            *)
(***************************************************************************)
HealthRequestFails ==
    \/ health.resp.threw
    \/ ~(200 <= health.resp.status /\ health.resp.status <= 399)

HealthBodyUnusable == ~health.body.parses \/ ~health.body.hasField

IsNoDate(ts) == DateParse(ts).k # "int"

FailedAtDeployTime ==
    /\ pc = "rejected"
    /\ exitCode = "1"
    /\ error = "getDeployTime"
    /\ BoardRequests = << >>

\* C14 as claimed.  It fails for a latest_deploy_time that is no date:
\* new Date(...) does not throw, getDeployTime returns an Invalid Date and
\* the run passes the gate
C14_DeployTimeFetchErrors ==
    /\ pc # "getDeployTime" =>
          /\ HealthRequestFails => FailedAtDeployTime
          /\ HealthBodyUnusable => FailedAtDeployTime
          /\ IsNoDate(health.body.latest_deploy_time) => FailedAtDeployTime
    /\ PassedGate => deployTime.k = "int"

\* The other errors are as claimed, and so is an empty latest_deploy_time
C14_ExceptInvalidDate ==
    pc # "getDeployTime" =>
        /\ HealthRequestFails => FailedAtDeployTime
        /\ HealthBodyUnusable => FailedAtDeployTime
        /\ health.body.latest_deploy_time = "" => FailedAtDeployTime

(***************************************************************************)
(* C15.  If no listed project has the configured project name, or no       *)
(* column of the project has the configured Done name or QA name, main     *)
(* fails: it exits with code 1 and the run sends no card-listing request   *)
(* and no move or archive request.                                         *)
(***************************************************************************)
NoneNamed(list, nm) == \A i \in DOMAIN list : list[i].name # nm

\* The project main looks the columns up in: the first with the name
ProjectOfBoard ==
    Projects[CHOOSE i \in DOMAIN Projects :
                /\ Projects[i].name = projectName
                /\ \A j \in 1..(i - 1) : Projects[j].name # projectName]

IsCardRequest(r) == r.op \in {"cards", "move", "archive"}

\* main failed at or before the step, having sent no request about cards
FailedBy(steps) ==
    \/ pc \in {"noRecentDeploy"} \union steps
    \/ /\ pc = "rejected"
       /\ exitCode = "1"
       /\ error \in {"getDeployTime", "done_column_name", "QA_column_name",
                     "project_name"} \union steps
       /\ SelectSeq(requests, IsCardRequest) = << >>

C15_NotFoundIsFatal ==
    /\ NoneNamed(Projects, projectName) =>
          FailedBy({"getDeployTime", "validateNames", "getProject"})
    /\ ~NoneNamed(Projects, projectName)
          /\ NoneNamed(ColumnsOf(ProjectOfBoard.id), columnNameDone) =>
          FailedBy({"getDeployTime", "validateNames", "getProject",
                    "getColumnDone"})
    /\ ~NoneNamed(Projects, projectName)
          /\ NoneNamed(ColumnsOf(ProjectOfBoard.id), columnNameQA) =>
          FailedBy({"getDeployTime", "validateNames", "getProject",
                    "getColumnDone", "getColumnQA"})

\* The column list arrived with status 200 and has no column of the QA name
C15_NoSuchQAColumn ==
    /\ columnNameQA = "Review"
    /\ error = "getColumnQA"
    /\ everyRequestOk
    /\ Len(requests) = 4
    /\ exitCode = "1"

(***************************************************************************)
(* C16.  If the QA listing returns the cards c1, ..., cn in that order,    *)
(* the move requests are sent in the order cn, ..., c1, one per card, all  *)
(* to the Done column.                                                     *)
(***************************************************************************)
\* The QA column when the run starts, which is what the listing returns:
\* the card at position i has id i
QAFetchOrder == QAIds(Cardinality(InitialQACards))

C16_MovesInReverseFetchOrder ==
    LET n == Len(QAFetchOrder)
    IN  /\ Len(MoveRequests) <= n
        /\ \A k \in DOMAIN MoveRequests :
              /\ MoveRequests[k].a = QAFetchOrder[n + 1 - k]
              /\ MoveRequests[k].b = DoneColumnOfBoard
        /\ batchOp = "move" => Len(MoveRequests) = requestSentCount
        /\ MoveBatchResolved => Len(MoveRequests) = n
        /\ pc = "moveCards" => QACards = WholeColumn(columnIdQA.v)
                               /\ column[columnIdQA.v] = QAFetchOrder

\* Both cards were requested, the second of the listing first
C16_SecondCardFirst ==
    /\ batchOp = "move"
    /\ Len(QAFetchOrder) = 2
    /\ MoveRequests = << MoveRequest(QAFetchOrder[2], DoneColumnOfBoard),
                         MoveRequest(QAFetchOrder[1], DoneColumnOfBoard) >>

(***************************************************************************)
(* C17.  The process exits with code 0 when the gate finds no recent       *)
(* deploy or when every step completes, and with code 1 when a step of     *)
(* main fails; a run that passes the gate, in which every request succeeds *)
(* and the configured limit is a non-negative integer, exits with code 0   *)
(* whatever the numbers of QA and Done cards.                              *)
(***************************************************************************)
\* C17 as claimed.  It fails when the Done column has no card beyond the
\* limit: the timer callback of archiveCards throws (see C3) and the
\* process exits with code 1 although no step of main and no request failed
C17_ExitCodes ==
    /\ pc \in {"noRecentDeploy", "finished"} => exitCode = "0"
    /\ pc = "rejected" => exitCode = "1"
    /\ exitCode = "0" => pc \in {"noRecentDeploy", "finished"}
    /\ exitCode = "1" => pc = "rejected"
    /\ RunEnded /\ PassedGate /\ BoardLocated /\ everyRequestOk /\ LimitIsValid =>
          exitCode = "0"

\* The exit codes of the runs in which archiveCards has a card to archive,
\* or is not reached, are as claimed
C17_ExitCodesButForTheEmptyArchive ==
    error # "uncaught" =>
        /\ pc \in {"noRecentDeploy", "finished"} => exitCode = "0"
        /\ pc = "rejected" => exitCode = "1"
        /\ exitCode = "0" => pc \in {"noRecentDeploy", "finished"}
        /\ exitCode = "1" => pc = "rejected"
        /\ RunEnded /\ PassedGate /\ BoardLocated /\ everyRequestOk
              /\ LimitIsValid => exitCode = "0"

(***************************************************************************)
(* C18.  Once a step of main fails (the deploy time, the names, the        *)
(* project, the Done or the QA column, the QA or the Done listing, the     *)
(* arguments of a batch), the run sends no further request of any kind and *)
(* ends in the error state.                                                *)
(***************************************************************************)
StepErrors ==
    {"getDeployTime", "done_column_name", "QA_column_name", "project_name",
     "getProject", "getColumnDone", "getColumnQA", "getQACards",
     "getDoneCards", "moveCards", "archiveCards"}

\* No timer is set and no request is waiting for its answer
NothingPending ==
    /\ ~requestInterval
    /\ \A i \in DOMAIN response : response[i].kind # "sent"

C18_FailStop ==
    /\ error \in StepErrors =>
          /\ pc = "rejected"
          /\ exitCode = "1"
          /\ NothingPending
          /\ ~ENABLED Next
    /\ pc = "rejected" => error \in StepErrors

\* The limit is rejected after the cards were moved and the Done column
\* listed
C18_FailedAtTheLastStep ==
    /\ error = "archiveCards"
    /\ Len(MoveRequests) = 2
    /\ ArchiveRequests = << >>
    /\ Last(requests).op = "cards"

(***************************************************************************)
(* C19.  When a configured input is invalid (an empty project or column    *)
(* name, a done_column_card_limit that is no non-negative integer), the    *)
(* validation error is raised before any network call of the run, so that  *)
(* no move request has been sent when the limit is rejected.               *)
(***************************************************************************)
NameErrors == {"done_column_name", "QA_column_name", "project_name"}

SomeNameIsEmpty == columnNameDone = "" \/ columnNameQA = "" \/ projectName = ""

\* C19 as claimed.  It fails: the names are checked after the health
\* request, and the limit is parsed after the move batch and checked by
\* archiveCards after the Done column was listed
C19_ValidationBeforeAnyRequest ==
    /\ error \in NameErrors => requests = << >>
    /\ error = "archiveCards" => requests = << >> /\ MoveRequests = << >>

\* C19 as the code has it: an empty name fails the run after the health
\* request and before any request to the board; a limit that parseInt
\* reads as NaN or as a negative number makes archiveCards reject, after
\* every QA card was sent its move request and the Done column was listed,
\* and before any archive request
C19_ValidationBeforeDependentRequests ==
    /\ error \in NameErrors =>
          /\ SomeNameIsEmpty
          /\ exitCode = "1"
          /\ requests = << HealthRequest >>
    /\ SomeNameIsEmpty =>
          /\ pc \in {"getDeployTime", "validateNames", "noRecentDeploy",
                     "rejected"}
          /\ BoardRequests = << >>
    /\ ~LimitIsValid =>
          /\ ArchiveRequests = << >>
          /\ pc # "finished"
          /\ pc = "awaitArchive" => promise = "rejected"
    /\ error = "archiveCards" =>
          /\ ~LimitIsValid
          /\ exitCode = "1"
          /\ Len(MoveRequests) = Cardinality(InitialQACards)
          /\ Len(SelectSeq(requests, IsDonePageRequest)) >= 1
          /\ ArchiveRequests = << >>

\* The limit -1 is rejected after a card was moved
C19_NegativeLimitRejectedAfterTheMove ==
    /\ error = "archiveCards"
    /\ cardLimitColumnDone = << "-", "1" >>
    /\ Len(MoveRequests) = 1
    /\ cardsMovedCount = 1

(***************************************************************************)
(* C20.  After a move batch in which every move succeeds, the moved cards  *)
(* are on top of the Done column in their QA fetch order, the first card   *)
(* of the QA listing topmost, in whatever order the board carries out the  *)
(* move requests that are in flight together.                              *)
(***************************************************************************)
EveryMoveSucceeded ==
    /\ batchOp = "move"
    /\ promise = "resolved"
    /\ Answered2xx = DOMAIN response

\* The topmost n cards of the Done column
TopOfDone(n) == SubSeq(column[columnIdDone.v], 1, n)

\* C20 as claimed.  It fails: the timer sends each request without waiting
\* for the answer to the one before, and when the board carries out the
\* request of the first QA card before that of the second, the second ends
\* up on top
C20_DoneKeepsFetchOrder ==
    EveryMoveSucceeded => TopOfDone(Len(QAFetchOrder)) = QAFetchOrder

\* What holds in every order: the moved cards are the topmost cards of the
\* Done column, above the cards that were there
C20_MovedCardsOnTopInSomeOrder ==
    EveryMoveSucceeded =>
        LET n == Len(QAFetchOrder)
        IN  /\ Len(column[columnIdDone.v]) >= n
            /\ {TopOfDone(n)[i] : i \in 1..n} = InitialQACards
            /\ column[columnIdQA.v] = << >>

(***************************************************************************)
(* C21.  In a run, no move request is sent before the project and both     *)
(* columns are found and the QA listing is complete; the first page of the *)
(* Done column is requested only after every move request has completed    *)
(* and the move batch has resolved; no archive request is sent before the  *)
(* Done listing is complete.                                               *)
(***************************************************************************)
\* The stage of main a request belongs to
Stage(r) ==
    CASE r.op = "health" -> 0
      [] r.op = "projects" -> 1
      [] r.op = "columns" -> 2
      [] r.op = "cards" /\ r.a = columnIdQA.v -> 3
      [] r.op = "move" -> 4
      [] r.op = "cards" /\ r.a = columnIdDone.v -> 5
      [] r.op = "archive" -> 6

\* No request of the move batch is waiting for its answer or still to send
MoveBatchOver ==
    \/ batchOp = "archive"
    \/ /\ batchOp = "move"
       /\ promise = "resolved"
       /\ cardAttemptCount = Len(cards)
       /\ NothingPending

C21_StagesInOrder ==
    /\ \A i, j \in DOMAIN requests : i < j => Stage(requests[i]) <= Stage(requests[j])
    /\ MoveRequests # << >> =>
          /\ project # Undefined
          /\ columnIdDone # UndefinedNum /\ columnIdQA # UndefinedNum
          /\ pc \notin {"getQACards", "listQA", "moveCards"}
          /\ Len(QACards) = Cardinality(InitialQACards)
    /\ SelectSeq(requests, IsDonePageRequest) # << >> =>
          /\ MoveBatchOver
          /\ Len(MoveRequests) = Len(QACards)
    /\ ArchiveRequests # << >> =>
          /\ pc \in {"awaitArchive", "finished"}
          /\ Len(doneCards) = Len(column[columnIdDone.v]) + Cardinality(archived)

\* Every stage has sent a request
C21_RequestsOfEveryStage ==
    /\ pc = "finished"
    /\ Len(MoveRequests) = 2
    /\ Len(SelectSeq(requests, IsDonePageRequest)) = 2
    /\ Len(ArchiveRequests) = 2

(***************************************************************************)
(* C22.  In a batch of two or more cards the request of the next card is   *)
(* sent at the next firing of the timer whether or not the requests before *)
(* it have completed: two or more requests can be in flight together, and  *)
(* they can complete in any order.                                         *)
(***************************************************************************)
RequestsInFlight == {i \in DOMAIN response : response[i].kind = "sent"}

C22_DispatchNeverWaits ==
    BatchRuns /\ exitCode = "none" =>
        /\ requestSentCount < Len(cards) => ENABLED (MoveTick \/ ArchiveTick)
        /\ \A i \in RequestsInFlight :
              ENABLED ((MoveSettle \/ ArchiveSettle)
                          /\ response'[i].kind = "settled")
        /\ overtaken => Len(cards) >= 2

\* The second card was answered while the first still waits, a third is
\* in flight too
C22_SecondAnsweredBeforeFirst ==
    /\ BatchRuns
    /\ Len(cards) = 3
    /\ response[1].kind = "sent"
    /\ response[2].kind = "settled"
    /\ response[3].kind = "sent"
    /\ overtaken

(***************************************************************************)
(* C23.  For a given batch and a given outcome of each card, the value the *)
(* promise is resolved with and the set of cards requested are the same    *)
(* for every interleaving of timer firings and completions: both are       *)
(* functions of the batch and the outcomes alone.                          *)
(***************************************************************************)
\* The number of cards among the first n whose outcome is a status 200..299
RECURSIVE SuccessesAmong(_, _)
SuccessesAmong(outcomes, n) ==
    IF n = 0 THEN 0
    ELSE SuccessesAmong(outcomes, n - 1) +
         (IF /\ outcomes[n].kind = "settled"
             /\ ~outcomes[n].resp.threw
             /\ outcomes[n].resp.status \in 200..299
          THEN 1 ELSE 0)

RequestedCards == {requests[k].a : k \in DOMAIN requests}

CardsWithValidId == {cards[i].id.v : i \in {j \in DOMAIN cards : ValidCard(j)}}

C23_ResultIsAFunctionOfTheOutcomes ==
    promise = "resolved" =>
        /\ RequestsInFlight = {}
        /\ promiseValue = SuccessesAmong(response, Len(cards))
        /\ RequestedCards = CardsWithValidId
        /\ Len(requests) = Cardinality(CardsWithValidId)

\* A batch resolved with 2 of 3 after a card was answered before one sent
\* earlier
C23_ResolvedAfterOvertaking ==
    /\ promise = "resolved"
    /\ overtaken
    /\ Len(cards) = 3
    /\ response[1] = Settled(Resp(200))
    /\ response[2] = Settled(Resp(404))
    /\ response[3] = Settled(Resp(200))
    /\ promiseValue = 2

(***************************************************************************)
(* C24.  In a run no network call is made twice for its target: a card is  *)
(* sent at most one move request and at most one archive request, a page   *)
(* of a listing is requested at most once, and a request that failed is    *)
(* not sent again.                                                         *)
(***************************************************************************)
NumberOf(op) == Cardinality({k \in DOMAIN requests : requests[k].op = op})

\* The cards of the running batch whose request failed
FailedRequests ==
    {i \in DOMAIN response :
        response[i].kind = "settled" /\ HandlerClass(response[i].resp) = "failure"}

C24_NoRequestTwice ==
    /\ NumberOf("health") <= 1
    /\ NumberOf("projects") <= 1
    \* one list of the columns for the Done column, one for the QA column
    /\ NumberOf("columns") <= 2
    /\ \A i, j \in DOMAIN requests :
          i < j /\ requests[i] = requests[j] => requests[i].op = "columns"
    /\ \A i \in FailedRequests : RequestsFor(batchOp, cards[i].id.v) = 1
    /\ error \in StepErrors => ~ENABLED Next

\* The archive request of the first card failed; the run went on to the
\* second card and ended
C24_FailedAndNotSentAgain ==
    /\ pc = "finished"
    /\ Len(cards) = 2
    /\ response[1] = Settled(Resp(404))
    /\ response[2] = Settled(Resp(200))
    /\ Len(ArchiveRequests) = 2

(***************************************************************************)
(* C25.  getProject(name) and getColumn(name, projectId) fail when the     *)
(* name is empty, before any request, and when the list request returns a  *)
(* status that is no success; otherwise they return the first element of   *)
(* the list whose name equals the name asked for, and undefined exactly    *)
(* when the list has no element of that name.                              *)
(***************************************************************************)
\* The list the board returns to the call
ListOfCall ==
    IF call.op = "getProject" THEN Projects
    ELSE IF call.a.k = "int" THEN ColumnsOf(call.a.v)
    ELSE << >>

FirstNamed(list, nm) ==
    list[CHOOSE i \in DOMAIN list :
            /\ list[i].name = nm
            /\ \A j \in 1..(i - 1) : list[j].name # nm]

ListRequestSucceeded ==
    ~call.resp.threw /\ call.resp.status \in 200..399

\* A lookup was called (getColumn with a projectId that passes its check)
LookupCalled ==
    \/ call.op = "getProject"
    \/ call.op = "getColumn" /\ ~NumLt(call.a, 0)

C25_LocatorResult ==
    LookupCalled =>
        /\ call.name = "" => call.outcome = "threw" /\ requests = << >>
        /\ call.name # "" => Len(requests) = 1
        /\ call.name # "" /\ ~ListRequestSucceeded => call.outcome = "threw"
        /\ call.name # "" /\ ListRequestSucceeded =>
              /\ call.outcome = "returned"
              /\ IF NoneNamed(ListOfCall, call.name)
                 THEN call.value = Undefined
                 ELSE /\ call.value = FirstNamed(ListOfCall, call.name)
                      /\ call.value # Undefined

\* Two projects are called CASA; the first of them is returned
C25_FirstOfTwoProjects ==
    /\ call.op = "getProject"
    /\ call.name = "CASA"
    /\ call.outcome = "returned"
    /\ call.value = Projects[2]
    /\ Projects[3].name = "CASA"

(***************************************************************************)
(* C26.  The calls that read (deploy health, project list, column list,    *)
(* card page) take exactly the statuses 200..399 as success and every      *)
(* other status as an error; the calls that mutate (move, archive) count   *)
(* exactly the statuses 200..299 as success, take 304 as already in state, *)
(* and every other status, the other 3xx included, as a failure of the     *)
(* card.                                                                   *)
(***************************************************************************)
\* A function that reads was called and its request was answered
ReadAnswered ==
    /\ call.op \in {"getDeployTime", "getProject", "getColumn", "getCardPage"}
    /\ Len(requests) = 1
    /\ ~call.resp.threw

\* The cards of the batch answered with a status of the set
AnsweredWith(set) ==
    {i \in DOMAIN response :
        /\ response[i].kind = "settled"
        /\ ~response[i].resp.threw
        /\ response[i].resp.status \in set}

C26_StatusClasses ==
    /\ ReadAnswered =>
          (call.outcome = "returned" <=> call.resp.status \in 200..399)
    /\ BatchRuns =>
          /\ cardsDoneCount = Cardinality(AnsweredWith(200..299))
          /\ infoCount = Cardinality(AnsweredWith({304}))
          /\ warnCount =
                Cardinality(Attempted \ AnsweredWith((200..299) \union {304}))

\* A move answered 302 is a failure of the card
C26_RedirectFailsAMove ==
    /\ batchOp = "move"
    /\ response = << Settled(Resp(302)) >>
    /\ promise = "resolved"
    /\ promiseValue = 0
    /\ warnCount = 1
    /\ infoCount = 0

(***************************************************************************)
(* C27.  A batch uses the delay of 1000 ms between its requests exactly    *)
(* when the list passed to it has at least MAX_CARDS_PER_PAGE cards (100   *)
(* in the program), and no delay otherwise; the delay is set before the    *)
(* first request and depends on nothing else.                              *)
(***************************************************************************)
\* The list passed to the batch: for archiveCards the whole list, not the
\* cards beyond the limit
ListPassed == IF batchOp = "move" THEN cards ELSE doneCards

C27_ThrottleTier ==
    batchOp # "none" =>
        /\ Len(ListPassed) >= MAX_CARDS_PER_PAGE =>
              delayBetweenRequestsMS = 1000
        /\ Len(ListPassed) < MAX_CARDS_PER_PAGE =>
              delayBetweenRequestsMS = 0

\* archiveCards throttles for the length of the list it is passed, though
\* fewer cards are to be archived
C27_ThrottledForTheWholeList ==
    /\ batchOp = "archive"
    /\ Len(doneCards) = MAX_CARDS_PER_PAGE
    /\ Len(cards) = 1
    /\ Len(cards) < MAX_CARDS_PER_PAGE
    /\ requestSentCount = 1
    /\ promise = "resolved"
    /\ delayBetweenRequestsMS = 1000

(***************************************************************************)
(* C28.  With a valid column id or limit, if the timer goes on firing and  *)
(* every request sent completes, the promise of the batch is resolved in   *)
(* the end, for every size of batch, that with no card to mutate included; *)
(* and once the arguments have passed the checks the promise is never      *)
(* rejected.                                                               *)
(***************************************************************************)
NeverRejectedLater == [][promise = "pending" => promise' # "rejected"]_vars

\* C28 as claimed.  It fails for archiveCards with no card beyond the
\* limit: the first firing of the timer throws (see C3), the process
\* exits, and the promise stays pending for ever
C28_BatchEventuallyResolves ==
    /\ [](BatchRuns => <>(promise = "resolved"))
    /\ NeverRejectedLater

\* A batch with a card to mutate, and moveCards of no card, resolve
C28_BatchWithACardEventuallyResolves ==
    /\ [](BatchRuns /\ (cards # << >> \/ batchOp = "move") =>
             <>(promise = "resolved"))
    /\ NeverRejectedLater

(***************************************************************************)
(* C29.  In every state of a running batch                                 *)
(* 0 <= successes <= attempts <= requests sent <= size of the batch; the   *)
(* interval is cleared as soon as the requests sent reach the size of the  *)
(* batch, so that no request is issued for an index at or past the end of  *)
(* the list; and the promise is resolved only where the attempts equal the *)
(* size of the batch.                                                      *)
(***************************************************************************)
CountersInOrder ==
    /\ 0 <= cardsDoneCount
    /\ cardsDoneCount <= cardAttemptCount
    /\ cardAttemptCount <= requestSentCount
    /\ requestSentCount <= Len(cards)

OfTheBatch(r) == r.op = batchOp

TimerStopsAtTheEnd ==
    /\ requestSentCount >= Len(cards) => ~requestInterval
    /\ Len(SelectSeq(requests, OfTheBatch)) <= Len(cards)
    /\ error # "uncaught"

ResolvedOnlyWhenAllAttempted ==
    promise = "resolved" => cardAttemptCount = Len(cards)

\* C29 as claimed.  It fails for archiveCards with no card beyond the
\* limit: the interval is set with 0 requests sent of 0, and its callback
\* runs for index 0 of the empty list (see C3)
C29_BatchCounters ==
    BatchRuns =>
        /\ CountersInOrder
        /\ TimerStopsAtTheEnd
        /\ ResolvedOnlyWhenAllAttempted

\* The same for every batch but archiveCards with nothing to archive
C29_BatchCountersWithACard ==
    BatchRuns /\ (cards # << >> \/ batchOp = "move") =>
        /\ CountersInOrder
        /\ TimerStopsAtTheEnd
        /\ ResolvedOnlyWhenAllAttempted

(***************************************************************************)
(* C30.  For a column of N not-archived cards and pages of P cards,        *)
(* getColumnCards ends after exactly N \div P + 1 successful page          *)
(* requests and returns all N cards; when N is a multiple of P (0          *)
(* included) the last request is for an empty page.                        *)
(***************************************************************************)
PagesNeeded(col) == Len(column[col]) \div MAX_CARDS_PER_PAGE + 1

\* getColumnCards(col) has returned result after the page requests reqs
ReturnedAfter(col, reqs, result) ==
    /\ Len(reqs) = PagesNeeded(col)
    /\ result = WholeColumn(col)
    /\ Len(result) = Len(column[col])
    /\ Len(column[col]) % MAX_CARDS_PER_PAGE = 0 =>
           PageOf(col, Last(reqs).b) = << >>
    /\ Len(column[col]) % MAX_CARDS_PER_PAGE # 0 =>
           PageOf(col, Last(reqs).b) # << >>

C30_PageRequestCount ==
    /\ pc = "listQA" =>
          Len(SelectSeq(requests, IsQAPageRequest)) < PagesNeeded(11)
    /\ pc = "moveCards" =>
          ReturnedAfter(11, SelectSeq(requests, IsQAPageRequest), QACards)
    /\ pc = "listDone" =>
          Len(SelectSeq(requests, IsDonePageRequest)) < PagesNeeded(12)
    /\ pc = "archiveCards" =>
          ReturnedAfter(12, SelectSeq(requests, IsDonePageRequest), doneCards)

\* One full page of QA cards, and a second request that finds no card
C30_EmptyPageAfterAFullOne ==
    /\ pc = "moveCards"
    /\ Len(column[11]) = MAX_CARDS_PER_PAGE
    /\ Len(QACards) = MAX_CARDS_PER_PAGE
    /\ Len(SelectSeq(requests, IsQAPageRequest)) = 2
    /\ PageOf(11, Last(requests).b) = << >>

=============================================================================
